---- MODULE Spec2Model ----
(***************************************************************************)
(* A model of the tgen command-line driver (src/run_tgen.py): the main     *)
(* dispatch, the option parsing of its four handlers, the generation loops *)
(* of sample_gen and asearch_gen with their evaluations, and the parts of  *)
(* the planner, trainer and evaluator libraries the driver calls.  The     *)
(* libraries (tgen.planner, tgen.rank, tgen.eval, tgen.futil, ...) are not *)
(* part of src/; their definitions are modelled from spec.md.              *)
(***************************************************************************)
EXTENDS Integers, Sequences, FiniteSets, TLC

\* ------------------------------------------------------------------ bounds
MaxDas == 2          \* DialogueActs in the test batch: 0..MaxDas
MaxGold == 2         \* gold trees in an evaluation file: 0..MaxGold
MaxN == 2            \* values of -n (trees per DialogueAct): 1..MaxN
MaxOpts == 2         \* options on one command line: 0..MaxOpts
MaxFiles == 4        \* positional arguments: 0..MaxFiles
MaxCount == 5        \* counts given to p_r_f1_from_counts: 0..MaxCount
MaxTrain == 3        \* training examples: 0..MaxTrain
MaxJobs == 2         \* values of -j: 1..MaxJobs
MaxExpansions == 6   \* the planner's ceiling on the close list's size
Passes == 2          \* the ranker configuration's number of training passes

\* --------------------------------------------------------------- constants
RandomSeed == 1206           \* random.seed(1206)
DefaultNumToGenerate == 1    \* num_to_generate = 1

None == "None"

\* ---------------------------------------------------------------- helpers
Min(a, b) == IF a <= b THEN a ELSE b

RECURSIVE SumSeq(_)
SumSeq(s) == IF s = <<>> THEN 0 ELSE Head(s) + SumSeq(Tail(s))

\* A rational number is a pair <<numerator, denominator>>, denominator > 0.
Frac(n, d) == <<n, d>>
FracZero == <<0, 1>>
FracAdd(x, y) == <<x[1] * y[2] + y[1] * x[2], x[2] * y[2]>>
FracMul(x, y) == <<x[1] * y[1], x[2] * y[2]>>
FracDiv(x, y) == <<x[1] * y[2], x[2] * y[1]>>
FracLess(x, y) == x[1] * y[2] < y[1] * x[2]
FracEq(x, y) == x[1] * y[2] = y[1] * x[2]
FracIsZero(x) == x[1] = 0
FracInUnit(x) == x[2] > 0 /\ 0 <= x[1] /\ x[1] <= x[2]

VARIABLES
    \* ---- the driver (src/run_tgen.py)
    pc,               \* position of the process
    action,           \* sys.argv[1]
    optv,             \* the options of sys.argv[2:], a sequence of <<opt, arg>>
    nfiles,           \* the number of positional arguments after the options
    seed,             \* <<s>> once the process-wide generator is seeded with s
    handler,          \* the handler function the dispatch called
    logged,           \* whether 'Done.' was logged
    eval_file, eval_selector, fname_ttrees_out,
    num_to_generate, oracle_eval_file,
    parallel, jobs_number,
    numDas,           \* len(das)
    goldTrees,        \* the trees of the evaluation file
    tgenSelector,     \* tgen.selector
    genDoc,           \* the generated trees of gen_doc, in document order
    genDocIsEval,     \* gen_doc is eval_doc
    daIdx, rep,       \* loop positions: `for da in das`, `for _ in xrange(n)`
    called,           \* indices of the DialogueActs generate_tree was called for
    failed,           \* indices of the DialogueActs whose search failed
    pairs,            \* <<gold index, DialogueAct index of the tree>> compared
    selected,         \* oracle evaluation: the sample selected per gold tree
    counts,           \* oracle evaluation: <<correct, predicted, gold>> sums
    score,            \* oracle evaluation: the logged <<P, R, F1>>
    written           \* <<doc>> once doc was handed to the writer

drv == <<pc, action, optv, nfiles, seed, handler, logged, eval_file,
         eval_selector, fname_ttrees_out, num_to_generate, oracle_eval_file,
         parallel, jobs_number, numDas, goldTrees, tgenSelector, genDoc,
         genDocIsEval, daIdx, rep, called, failed, pairs, selected, counts,
         score, written>>

VARIABLES
    \* ---- a call of p_r_f1_from_counts (tgen.eval)
    epc, correct, predicted, gold, prf

evl == <<epc, correct, predicted, gold, prf>>

VARIABLES
    \* ---- two runs of percrank_train on the same configuration and data
    tpc,              \* position of each run
    trainData,        \* the training examples of train-das / train-ttrees
    dataPortion,      \* -s data-portion, in halves
    jobsArg,          \* the argument of -j of the second run
    saved             \* the weight vector each run saved

trn == <<tpc, trainData, dataPortion, jobsArg, saved>>

VARIABLES
    \* ---- two runs of asearch_gen on the same model files and DialogueAct
    spc,              \* position of each run
    rseed,            \* the seed of each run's process-wide random generator
    target,           \* the DialogueAct: the nodes a complete tree realises
    candModel,        \* the candidate-generator model file: the known nodes
    weights,          \* the ranker model file: the weight of each node
    openList,         \* each run's open list, in insertion order
    closeList,        \* each run's close list, in expansion order
    result            \* the tree each run generated, <<>> while there is none

srch == <<spc, rseed, target, candModel, weights, openList, closeList, result>>

notDrv == <<evl, trn, srch>>

vars == <<drv, evl, trn, srch>>

\* ------------------------------------------------------- the command line
Documented == {"candgen_train", "percrank_train", "sample_gen", "asearch_gen"}
ActionNames == Documented \cup {"random_gen", "bogus_action"}

\* The options a command line of the model may hold.
OptTokens ==
    {<<"-e", "gold.yaml">>, <<"-s", "ref">>, <<"-w", "out.yaml">>,
     <<"-o", "gold.yaml">>, <<"-j", 1>>}
        \cup {<<"-n", k>> : k \in 1..MaxN}

\* The command lines of the model give an option at most once, and the
\* options in this order (no handler depends on the order of its options).
OptRank(o) ==
    CASE o = "-e" -> 1 [] o = "-s" -> 2 [] o = "-n" -> 3
      [] o = "-o" -> 4 [] o = "-j" -> 5 [] OTHER -> 6

OptVectors ==
    {ov \in UNION {[1..n -> OptTokens] : n \in 0..MaxOpts} :
        \A i \in 1..(Len(ov) - 1) : OptRank(ov[i][1]) < OptRank(ov[i + 1][1])}

Selectors == {"", "ref"}
NodeSets == {{"a"}, {"a", "b"}}
GoldSets == {{"a"}, {"a", "b"}}
GoldFiles == UNION {[1..n -> GoldSets] : n \in 0..MaxGold}

\* getopt(args, optstring): an option outside optstring raises GetoptError.
GetoptOk(ov, optstring) == \A i \in 1..Len(ov) : ov[i][1] \in optstring

\* `for opt, arg in opts: if opt == o: x = arg`: the last occurrence wins.
RECURSIVE OptValue(_, _, _)
OptValue(ov, o, default) ==
    IF ov = <<>> THEN default
    ELSE IF ov[Len(ov)][1] = o THEN ov[Len(ov)][2]
    ELSE OptValue(SubSeq(ov, 1, Len(ov) - 1), o, default)

HasOpt(ov, o) == \E i \in 1..Len(ov) : ov[i][1] = o

CandgenOptString == {"-p"}
PercrankOptString == {"-c", "-d", "-s", "-j", "-w"}
SampleOptString == {"-r", "-n", "-o", "-w"}
ASearchOptString == {"-e", "-d", "-w", "-c"}

\* The handler the dispatch of __main__ calls for an action name.
Dispatch(a) ==
    CASE a = "candgen_train" -> "candgen_train"
      [] a = "percrank_train" -> "percrank_train"
      [] a = "random_gen" -> "sample_gen"
      [] a = "asearch_gen" -> "asearch_gen"
      [] OTHER -> "unknown"

\* ------------------------------------------------------------- evaluation
\* corr_pred_gold(gold, predicted): matching nodes, predicted nodes, gold nodes.
corr_pred_gold(gold_tree, gen_tree) ==
    <<Cardinality(gold_tree \cap gen_tree.nodes), Cardinality(gen_tree.nodes),
      Cardinality(gold_tree)>>

\* precision = correct/predicted, recall = correct/gold, F1 their harmonic
\* mean; each is 0 when its denominator is 0.
PrecisionUnguarded(c, p) == Frac(c, p)
Precision(c, p) == IF p = 0 THEN FracZero ELSE Frac(c, p)
Recall(c, g) == IF g = 0 THEN FracZero ELSE Frac(c, g)
HarmonicMean(x, y) ==
    IF FracIsZero(FracAdd(x, y)) THEN FracZero
    ELSE FracDiv(FracMul(Frac(2, 1), FracMul(x, y)), FracAdd(x, y))

p_r_f1_from_counts(c, p, g) ==
    <<Precision(c, p), Recall(c, g), HarmonicMean(Precision(c, p), Recall(c, g))>>

f1_from_counts(c, p, g) == p_r_f1_from_counts(c, p, g)[3]

\* chunk_list(l, n): consecutive chunks of n items, the last one maybe shorter.
chunk_list(l, n) ==
    [k \in 1..((Len(l) + n - 1) \div n) |->
        SubSeq(l, (k - 1) * n + 1, Min(k * n, Len(l)))]

OracleBestFirst(gold_tree, chunk) == 1

\* max(list, key=f1): the first item of the chunk whose F1 is maximal.
OracleBest(gold_tree, chunk) ==
    LET f(i) == f1_from_counts(corr_pred_gold(gold_tree, chunk[i])[1],
                               corr_pred_gold(gold_tree, chunk[i])[2],
                               corr_pred_gold(gold_tree, chunk[i])[3])
    IN  CHOOSE i \in 1..Len(chunk) :
            /\ \A j \in 1..Len(chunk) : ~FracLess(f(i), f(j))
            /\ \A j \in 1..(i - 1) : FracLess(f(j), f(i))

\* zip(a, b): as many pairs as the shorter sequence has items.
ZipLen(a, b) == Min(Len(a), Len(b))

\* ------------------------------------------------------------ generation
\* SamplingPlanner.generate_tree(da, gen_doc): one sampled tree is appended.
SampleTreeOutcomes(doc, da) ==
    {Append(doc, [da |-> da, nodes |-> n]) : n \in NodeSets}

\* ASearchPlanner.generate_tree(da, gen_doc): the best tree is appended, or,
\* when the search fails, the DialogueAct yields no tree and the call returns.
ASearchTreeOutcomes(doc, da) ==
    {doc} \cup {Append(doc, [da |-> da, nodes |-> n]) : n \in NodeSets}

\* `for da in das`: the DialogueAct the i-th iteration processes.
SampleDaAt(i) == i
ASearchDaAtReversed(i) == numDas + 1 - i
ASearchDaAt(i) == i

\* The loop position after generate_tree returned: the loop has no break and
\* no exception handler, it goes on whether or not a tree was added.
ASearchNextIdxBreak(i, added) == IF added THEN i + 1 ELSE MaxDas + MaxGold + 1
ASearchNextIdx(i, added) == i + 1

\* The number of iterations of asearch_gen's generation loop.
ASearchLoopLen(ef, nd, gt) == IF ef = None THEN nd ELSE Min(nd, Len(gt))

\* ---------------------------------------------------------------- driver
DrvInit ==
    /\ pc = "start"
    /\ action \in ActionNames
    /\ optv \in OptVectors
    /\ nfiles \in 0..MaxFiles
    /\ seed = <<>>
    /\ handler = None
    /\ logged = FALSE
    /\ eval_file = None /\ eval_selector = "" /\ fname_ttrees_out = None
    /\ num_to_generate = DefaultNumToGenerate /\ oracle_eval_file = None
    /\ parallel = FALSE /\ jobs_number = 0
    /\ numDas = 0 /\ goldTrees = <<>> /\ tgenSelector = ""
    /\ genDoc = <<>> /\ genDocIsEval = FALSE
    /\ daIdx = 1 /\ rep = 1
    /\ called = {} /\ failed = {} /\ pairs = {}
    /\ selected = <<>> /\ counts = <<0, 0, 0>> /\ score = <<>>
    /\ written = <<>>

\* __main__: random.seed(1206)
MainSeed ==
    /\ pc = "start"
    /\ seed' = <<RandomSeed>>
    /\ pc' = "main"
    /\ UNCHANGED <<action, optv, nfiles, handler, logged, eval_file,
                   eval_selector, fname_ttrees_out, num_to_generate,
                   oracle_eval_file, parallel, jobs_number, numDas, goldTrees,
                   tgenSelector, genDoc, genDocIsEval, daIdx, rep, called,
                   failed, pairs, selected, counts, score, written>>
    /\ UNCHANGED notDrv

\* __main__: the check of len(sys.argv) and the dispatch on the action name.
MainDispatch ==
    /\ pc = "main"
    /\ IF 2 * Len(optv) + nfiles = 0
       THEN pc' = "exit_usage" /\ handler' = handler
       ELSE IF Dispatch(action) = "unknown"
       THEN pc' = "exit_unknown" /\ handler' = handler
       ELSE pc' = Dispatch(action) /\ handler' = Dispatch(action)
    /\ UNCHANGED <<action, optv, nfiles, seed, logged, eval_file,
                   eval_selector, fname_ttrees_out, num_to_generate,
                   oracle_eval_file, parallel, jobs_number, numDas, goldTrees,
                   tgenSelector, genDoc, genDocIsEval, daIdx, rep, called,
                   failed, pairs, selected, counts, score, written>>
    /\ UNCHANGED notDrv

\* candgen_train(args)
CandgenTrain ==
    /\ pc = "candgen_train"
    /\ pc' = IF ~GetoptOk(optv, CandgenOptString) THEN "exit_getopt"
             ELSE IF nfiles # 3 THEN "exit_usage"
             ELSE "log_done"
    /\ UNCHANGED <<action, optv, nfiles, seed, handler, logged, eval_file,
                   eval_selector, fname_ttrees_out, num_to_generate,
                   oracle_eval_file, parallel, jobs_number, numDas, goldTrees,
                   tgenSelector, genDoc, genDocIsEval, daIdx, rep, called,
                   failed, pairs, selected, counts, score, written>>
    /\ UNCHANGED notDrv

\* percrank_train(args): -s is parsed with float(arg), -j with int(arg).
PercrankTrain ==
    /\ pc = "percrank_train"
    /\ IF ~GetoptOk(optv, PercrankOptString)
       THEN pc' = "exit_getopt" /\ UNCHANGED <<parallel, jobs_number>>
       ELSE IF HasOpt(optv, "-s")
       THEN pc' = "exit_exception" /\ UNCHANGED <<parallel, jobs_number>>
       ELSE /\ parallel' = HasOpt(optv, "-j")
            /\ jobs_number' = OptValue(optv, "-j", 0)
            /\ pc' = IF nfiles # 4 THEN "exit_usage" ELSE "log_done"
    /\ UNCHANGED <<action, optv, nfiles, seed, handler, logged, eval_file,
                   eval_selector, fname_ttrees_out, num_to_generate,
                   oracle_eval_file, numDas, goldTrees,
                   tgenSelector, genDoc, genDocIsEval, daIdx, rep, called,
                   failed, pairs, selected, counts, score, written>>
    /\ UNCHANGED notDrv

\* sample_gen: the oracle evaluation's loop over zip(gold_trees, chunks).
\* The position in gen_trees of the sample selected for the i-th gold tree.
OracleSelected(gold_trees, gen_trees, n) ==
    [i \in 1..ZipLen(gold_trees, chunk_list(gen_trees, n)) |->
        (i - 1) * n + OracleBest(gold_trees[i], chunk_list(gen_trees, n)[i])]

\* correct += tc; predicted += tp; gold += tg
OracleCounts(gold_trees, gen_trees, n) ==
    LET sel == OracleSelected(gold_trees, gen_trees, n)
        cpg(k) == [i \in 1..Len(sel) |->
                      corr_pred_gold(gold_trees[i], gen_trees[sel[i]])[k]]
    IN  <<SumSeq(cpg(1)), SumSeq(cpg(2)), SumSeq(cpg(3))>>

\* The <<gold index, DialogueAct>> pairs corr_pred_gold is called on.
OraclePairs(gold_trees, gen_trees, n) ==
    LET chunks == chunk_list(gen_trees, n)
    IN  {<<i, chunks[i][j].da>> :
            i \in 1..ZipLen(gold_trees, chunks), j \in 1..n} 

\* sample_gen(args): option parsing and initialisation, up to read_das.
SampleGen ==
    /\ pc = "sample_gen"
    /\ IF ~GetoptOk(optv, SampleOptString)
       THEN pc' = "exit_getopt"
            /\ UNCHANGED <<num_to_generate, oracle_eval_file,
                           fname_ttrees_out, numDas>>
       ELSE IF nfiles # 2
       THEN pc' = "exit_usage"
            /\ num_to_generate' = OptValue(optv, "-n", DefaultNumToGenerate)
            /\ oracle_eval_file' = OptValue(optv, "-o", None)
            /\ fname_ttrees_out' = OptValue(optv, "-w", None)
            /\ UNCHANGED numDas
       ELSE /\ pc' = "sample_generate"
            /\ num_to_generate' = OptValue(optv, "-n", DefaultNumToGenerate)
            /\ oracle_eval_file' = OptValue(optv, "-o", None)
            /\ fname_ttrees_out' = OptValue(optv, "-w", None)
            /\ numDas' \in 0..MaxDas
    /\ UNCHANGED <<action, optv, nfiles, seed, handler, logged, eval_file,
                   eval_selector, parallel, jobs_number, goldTrees,
                   tgenSelector, genDoc, genDocIsEval, daIdx, rep, called,
                   failed, pairs, selected, counts, score, written>>
    /\ UNCHANGED notDrv

\* sample_gen: one tgen.generate_tree(da, gen_doc) of the nested loops.
SampleGenerate ==
    /\ pc = "sample_generate"
    /\ IF daIdx > numDas
       THEN /\ pc' = IF oracle_eval_file # None THEN "sample_evaluate"
                     ELSE "sample_write"
            /\ UNCHANGED <<genDoc, called, daIdx, rep>>
       ELSE /\ genDoc' \in SampleTreeOutcomes(genDoc, SampleDaAt(daIdx))
            /\ called' = called \cup {SampleDaAt(daIdx)}
            /\ IF rep >= num_to_generate
               THEN daIdx' = daIdx + 1 /\ rep' = 1
               ELSE daIdx' = daIdx /\ rep' = rep + 1
            /\ pc' = pc
    /\ UNCHANGED <<action, optv, nfiles, seed, handler, logged, eval_file,
                   eval_selector, fname_ttrees_out, num_to_generate,
                   oracle_eval_file, parallel, jobs_number, numDas, goldTrees,
                   tgenSelector, genDocIsEval, failed, pairs, selected,
                   counts, score, written>>
    /\ UNCHANGED notDrv

\* sample_gen: the oracle evaluation.
SampleEvaluate ==
    /\ pc = "sample_evaluate"
    /\ \E gf \in GoldFiles :
        /\ goldTrees' = gf
        /\ selected' = OracleSelected(gf, genDoc, num_to_generate)
        /\ counts' = OracleCounts(gf, genDoc, num_to_generate)
        /\ pairs' = OraclePairs(gf, genDoc, num_to_generate)
    /\ score' = p_r_f1_from_counts(counts'[1], counts'[2], counts'[3])
    /\ pc' = "sample_write"
    /\ UNCHANGED <<action, optv, nfiles, seed, handler, logged, eval_file,
                   eval_selector, fname_ttrees_out, num_to_generate,
                   oracle_eval_file, parallel, jobs_number, numDas,
                   tgenSelector, genDoc, genDocIsEval, daIdx, rep, called,
                   failed, written>>
    /\ UNCHANGED notDrv

\* sample_gen: write output.
SampleWrite ==
    /\ pc = "sample_write"
    /\ written' = IF fname_ttrees_out # None THEN <<genDoc>> ELSE <<>>
    /\ pc' = "log_done"
    /\ UNCHANGED <<action, optv, nfiles, seed, handler, logged, eval_file,
                   eval_selector, fname_ttrees_out, num_to_generate,
                   oracle_eval_file, parallel, jobs_number, numDas, goldTrees,
                   tgenSelector, genDoc, genDocIsEval, daIdx, rep, called,
                   failed, pairs, selected, counts, score>>
    /\ UNCHANGED notDrv

\* asearch_gen: the <<gold index, DialogueAct>> pairs of the F-score
\* evaluation, zip(eval_doc.bundles, eval_ttrees, gen_ttrees).
ASearchPairs(eval_ttrees, gen_ttrees) ==
    {<<i, gen_ttrees[i].da>> : i \in 1..ZipLen(eval_ttrees, gen_ttrees)}

\* asearch_gen(args): option parsing and initialisation, up to the choice of
\* gen_doc.
ASearchGen ==
    /\ pc = "asearch_gen"
    /\ IF ~GetoptOk(optv, ASearchOptString)
       THEN pc' = "exit_getopt"
            /\ UNCHANGED <<eval_file, eval_selector, fname_ttrees_out, numDas,
                           goldTrees, tgenSelector, genDocIsEval>>
       ELSE /\ eval_file' = OptValue(optv, "-e", None)
            /\ eval_selector' = OptValue(optv, "-s", "")
            /\ fname_ttrees_out' = OptValue(optv, "-w", None)
            /\ IF nfiles # 3
               THEN pc' = "exit_usage"
                    /\ UNCHANGED <<numDas, goldTrees, tgenSelector,
                                   genDocIsEval>>
               ELSE /\ pc' = "asearch_generate"
                    /\ tgenSelector' \in Selectors
                    /\ numDas' \in 0..MaxDas
                    /\ IF eval_file' = None
                       THEN goldTrees' = <<>> /\ genDocIsEval' = FALSE
                       ELSE /\ goldTrees' \in GoldFiles
                            /\ genDocIsEval' = (eval_selector' # tgenSelector')
    /\ UNCHANGED <<action, optv, nfiles, seed, handler, logged,
                   num_to_generate, oracle_eval_file, parallel, jobs_number,
                   genDoc, daIdx, rep, called, failed, pairs, selected,
                   counts, score, written>>
    /\ UNCHANGED notDrv

\* asearch_gen: one tgen.generate_tree(da, gen_doc) of the generation loop.
ASearchGenerate ==
    /\ pc = "asearch_generate"
    /\ IF daIdx > ASearchLoopLen(eval_file, numDas, goldTrees)
       THEN /\ pc' = IF eval_file # None THEN "asearch_evaluate"
                     ELSE "asearch_write"
            /\ UNCHANGED <<genDoc, called, failed, daIdx>>
       ELSE /\ genDoc' \in ASearchTreeOutcomes(genDoc, ASearchDaAt(daIdx))
            /\ called' = called \cup {ASearchDaAt(daIdx)}
            /\ failed' = IF genDoc' = genDoc
                         THEN failed \cup {ASearchDaAt(daIdx)} ELSE failed
            /\ daIdx' = ASearchNextIdx(daIdx, genDoc' # genDoc)
            /\ pc' = pc
    /\ UNCHANGED <<action, optv, nfiles, seed, handler, logged, eval_file,
                   eval_selector, fname_ttrees_out, num_to_generate,
                   oracle_eval_file, parallel, jobs_number, numDas, goldTrees,
                   tgenSelector, genDocIsEval, rep, pairs, selected,
                   counts, score, written>>
    /\ UNCHANGED notDrv

\* asearch_gen: evaluate F-scores.
ASearchEvaluate ==
    /\ pc = "asearch_evaluate"
    /\ pairs' = ASearchPairs(goldTrees, genDoc)
    /\ pc' = "asearch_write"
    /\ UNCHANGED <<action, optv, nfiles, seed, handler, logged, eval_file,
                   eval_selector, fname_ttrees_out, num_to_generate,
                   oracle_eval_file, parallel, jobs_number, numDas, goldTrees,
                   tgenSelector, genDoc, genDocIsEval, daIdx, rep, called,
                   failed, selected, counts, score, written>>
    /\ UNCHANGED notDrv

\* asearch_gen: write output.
ASearchWrite ==
    /\ pc = "asearch_write"
    /\ written' = IF fname_ttrees_out # None THEN <<genDoc>> ELSE <<>>
    /\ pc' = "log_done"
    /\ UNCHANGED <<action, optv, nfiles, seed, handler, logged, eval_file,
                   eval_selector, fname_ttrees_out, num_to_generate,
                   oracle_eval_file, parallel, jobs_number, numDas, goldTrees,
                   tgenSelector, genDoc, genDocIsEval, daIdx, rep, called,
                   failed, pairs, selected, counts, score>>
    /\ UNCHANGED notDrv

\* __main__: log_info('Done.')
LogDone ==
    /\ pc = "log_done"
    /\ logged' = TRUE
    /\ pc' = "done"
    /\ UNCHANGED <<action, optv, nfiles, seed, handler, eval_file,
                   eval_selector, fname_ttrees_out, num_to_generate,
                   oracle_eval_file, parallel, jobs_number, numDas, goldTrees,
                   tgenSelector, genDoc, genDocIsEval, daIdx, rep, called,
                   failed, pairs, selected, counts, score, written>>
    /\ UNCHANGED notDrv

DrvNext ==
    \/ MainSeed \/ MainDispatch
    \/ CandgenTrain \/ PercrankTrain
    \/ SampleGen \/ SampleGenerate \/ SampleEvaluate \/ SampleWrite
    \/ ASearchGen \/ ASearchGenerate \/ ASearchEvaluate \/ ASearchWrite
    \/ LogDone

\* The parts of the model a specification does not run stay idle.
DrvIdle ==
    /\ pc = "idle" /\ action = None /\ optv = <<>> /\ nfiles = 0
    /\ seed = <<>> /\ handler = None /\ logged = FALSE
    /\ eval_file = None /\ eval_selector = "" /\ fname_ttrees_out = None
    /\ num_to_generate = DefaultNumToGenerate /\ oracle_eval_file = None
    /\ parallel = FALSE /\ jobs_number = 0
    /\ numDas = 0 /\ goldTrees = <<>> /\ tgenSelector = ""
    /\ genDoc = <<>> /\ genDocIsEval = FALSE
    /\ daIdx = 1 /\ rep = 1
    /\ called = {} /\ failed = {} /\ pairs = {}
    /\ selected = <<>> /\ counts = <<0, 0, 0>> /\ score = <<>>
    /\ written = <<>>

EvalIdle ==
    /\ epc = "idle" /\ correct = 0 /\ predicted = 0 /\ gold = 0
    /\ prf = <<>>

TrainIdle ==
    /\ tpc = <<>> /\ trainData = <<>> /\ dataPortion = 0 /\ jobsArg = 0
    /\ saved = <<>>

SearchIdle ==
    /\ spc = <<>> /\ rseed = <<>> /\ target = {} /\ candModel = {}
    /\ weights = <<>> /\ openList = <<>> /\ closeList = <<>> /\ result = <<>>

\* -------------------------------------------------- p_r_f1_from_counts
EvalInit ==
    /\ epc = "call"
    /\ correct \in 0..MaxCount
    /\ predicted \in correct..MaxCount
    /\ gold \in correct..MaxCount
    /\ prf = <<>>

\* log_info("... %.6f ..." % p_r_f1_from_counts(correct, predicted, gold))
EvalCall ==
    /\ epc = "call"
    /\ prf' = p_r_f1_from_counts(correct, predicted, gold)
    /\ epc' = "done"
    /\ UNCHANGED <<correct, predicted, gold, drv, trn, srch>>

EvalNext == EvalCall

InitEval == DrvIdle /\ EvalInit /\ TrainIdle /\ SearchIdle

SpecEval == InitEval /\ [][EvalNext]_vars

\* ------------------------------------------------------- percrank_train
Features == {1, 2}
FeatureSets == {{1}, {2}}
\* A training example: the candidates in the order the candidate generator
\* proposes them, and which of them is the gold extension.
Examples ==
    {[cands |-> c, gold |-> g] :
        c \in {<<{1}, {2}>>, <<{2}, {1}>>}, g \in 1..2}
TrainSets == UNION {[1..n -> Examples] : n \in 0..MaxTrain}

ZeroWeights == [f \in Features |-> 0]

\* score = dot(WeightVector, FeatureVector)
RankScore(w, fs) ==
    SumSeq([i \in 1..2 |-> IF i \in fs THEN w[i] ELSE 0])

\* The argmax-scored candidate; ties go to the first proposed.
RankArgmax(w, cands) ==
    CHOOSE k \in 1..Len(cands) :
        /\ \A j \in 1..Len(cands) : RankScore(w, cands[j]) <= RankScore(w, cands[k])
        /\ \A j \in 1..(k - 1) : RankScore(w, cands[j]) < RankScore(w, cands[k])

\* The perceptron update (learning rate 1) when the argmax is not the gold.
PerceptronUpdate(w, ex) ==
    LET k == RankArgmax(w, ex.cands)
    IN  IF k = ex.gold THEN w
        ELSE [f \in Features |->
                w[f] + (IF f \in ex.cands[ex.gold] THEN 1 ELSE 0)
                     - (IF f \in ex.cands[k] THEN 1 ELSE 0)]

RECURSIVE TrainPass(_, _)
TrainPass(w, data) ==
    IF data = <<>> THEN w
    ELSE TrainPass(PerceptronUpdate(w, Head(data)), Tail(data))

RECURSIVE TrainPasses(_, _, _)
TrainPasses(w, data, n) ==
    IF n = 0 THEN w ELSE TrainPasses(TrainPass(w, data), data, n - 1)

\* PerceptronRanker.train then save_to_file: the weights, as rationals.
PerceptronTrain(data) ==
    [f \in Features |-> Frac(TrainPasses(ZeroWeights, data, Passes)[f], 1)]

\* The training portion: the first data_portion of the examples (in halves).
TrainPortion(data, halves) == SubSeq(data, 1, (Len(data) * halves) \div 2)

\* The k-th of `jobs` contiguous shards.
Shard(data, jobs, k) ==
    LET size == (Len(data) + jobs - 1) \div jobs
    IN  SubSeq(data, (k - 1) * size + 1, Min(k * size, Len(data)))

\* ParallelPerceptronRanker.train then save_to_file: every shard trains its
\* own ranker; the weight vectors are merged by simple averaging.
ParallelTrain(data, jobs) ==
    [f \in Features |->
        Frac(SumSeq([k \in 1..jobs |->
                TrainPasses(ZeroWeights, Shard(data, jobs, k), Passes)[f]]),
             jobs)]

\* rank_config['jobs_number'] = jobs_number
RankConfigJobsOffByOne(j) == j + 1
RankConfigJobs(j) == j

\* percrank_train(args): the weight vector the run saves.
PercrankTrainSaved(ov, data, halves) ==
    IF ~HasOpt(ov, "-j")
    THEN PerceptronTrain(TrainPortion(data, halves))
    ELSE ParallelTrain(TrainPortion(data, halves),
                       RankConfigJobs(OptValue(ov, "-j", 0)))

TrainInit ==
    /\ tpc = [r \in 1..2 |-> "start"]
    /\ trainData \in TrainSets
    /\ dataPortion \in 1..2
    /\ jobsArg \in 1..MaxJobs
    /\ saved = [r \in 1..2 |-> [f \in Features |-> FracZero]]

\* The run without -j.
TrainPlainRun ==
    /\ tpc[1] = "start"
    /\ saved' = [saved EXCEPT ![1] = PercrankTrainSaved(<<>>, trainData, dataPortion)]
    /\ tpc' = [tpc EXCEPT ![1] = "done"]
    /\ UNCHANGED <<trainData, dataPortion, jobsArg, drv, evl, srch>>

\* The run with -j jobsArg.
TrainParallelRun ==
    /\ tpc[2] = "start"
    /\ saved' = [saved EXCEPT ![2] =
                    PercrankTrainSaved(<<<<"-j", jobsArg>>>>, trainData, dataPortion)]
    /\ tpc' = [tpc EXCEPT ![2] = "done"]
    /\ UNCHANGED <<trainData, dataPortion, jobsArg, drv, evl, srch>>

TrainNext == TrainPlainRun \/ TrainParallelRun

InitTrain == DrvIdle /\ EvalIdle /\ TrainInit /\ SearchIdle

SpecTrain == InitTrain /\ [][TrainNext]_vars

\* ------------------------------------------------- the A* search planner
\* A TreeState is identified by its structure, the set of its nodes; the root
\* alone is {}.  An open-list entry holds a TreeState and its ranker score.
Ops == {1, 2, 3}
Runs == {1, 2}
WeightValues == {-1, 0, 1}

RankerScore(w, st) == SumSeq([o \in 1..3 |-> IF o \in st THEN w[o] ELSE 0])

SeqRange(q) == {q[i] : i \in 1..Len(q)}

\* Goal state: the frontier is empty, the tree realises the DialogueAct.
IsGoal(st, da) == da \subseteq st

\* The candidate generator's proposals at a state, in its order.
RECURSIVE Proposals(_, _, _)
Proposals(st, model, o) ==
    IF o > 3 THEN <<>>
    ELSE (IF o \in model \ st THEN <<st \cup {o}>> ELSE <<>>)
            \o Proposals(st, model, o + 1)

\* An open-list entry may be popped when its state is not on the close list.
Poppable(open, closed, k) == open[k].st \notin SeqRange(closed)

IsLive(open, closed, k) == Poppable(open, closed, k)

\* Ties between equal scores: the entry inserted first wins.
TieBreak(open, closed, k) ==
    \A j \in 1..(k - 1) :
        IsLive(open, closed, j) => open[j].score < open[k].score

\* The entries a pop may take: the highest-scoring ones not on the close
\* list, ties broken by insertion order.
PopCandidates(open, closed) ==
    {k \in 1..Len(open) :
        /\ IsLive(open, closed, k)
        /\ \A j \in 1..Len(open) :
              IsLive(open, closed, j) => open[j].score <= open[k].score
        /\ TieBreak(open, closed, k)}

RemoveAt(q, k) == SubSeq(q, 1, k - 1) \o SubSeq(q, k + 1, Len(q))

InsertableAlways(st, closed) == TRUE

\* A child is inserted unless an equivalent state is on the close list.
Insertable(st, closed) == st \notin SeqRange(closed)

\* The children of an expanded state that go onto the open list.
NewEntries(st, closed, model, w) ==
    LET ch == Proposals(st, model, 1)
        keep(c) == Insertable(c, closed)
        kept == SelectSeq(ch, keep)
    IN  [i \in 1..Len(kept) |-> [st |-> kept[i], score |-> RankerScore(w, kept[i])]]

\* random.seed(1206), the first statement of the process.
ProcessSeedOfRun(r) == RandomSeed + r
ProcessSeed(r) == RandomSeed

SearchInit ==
    /\ spc = [r \in Runs |-> "start"]
    /\ rseed = [r \in Runs |-> <<>>]
    /\ target \in SUBSET Ops \ {{}}
    /\ candModel \in SUBSET Ops
    /\ weights \in [Ops -> WeightValues]
    /\ openList = [r \in Runs |-> <<>>]
    /\ closeList = [r \in Runs |-> <<>>]
    /\ result = [r \in Runs |-> <<>>]

\* __main__ and asearch_gen up to the call of generate_tree: the seed is set,
\* the models are loaded, the search starts from the root alone, score 0.
SearchStart(r) ==
    /\ spc[r] = "start"
    /\ rseed' = [rseed EXCEPT ![r] = <<ProcessSeed(r)>>]
    /\ openList' = [openList EXCEPT ![r] = <<[st |-> {}, score |-> 0]>>]
    /\ spc' = [spc EXCEPT ![r] = "search"]
    /\ UNCHANGED <<target, candModel, weights, closeList, result, drv, evl, trn>>

\* The search fails: the open list holds nothing to pop, or the ceiling on
\* the number of expansions is reached.  The DialogueAct yields no tree.
SearchFail(r) ==
    /\ spc[r] = "search"
    /\ \/ PopCandidates(openList[r], closeList[r]) = {}
       \/ Len(closeList[r]) >= MaxExpansions
    /\ spc' = [spc EXCEPT ![r] = "failure"]
    /\ UNCHANGED <<rseed, target, candModel, weights, openList, closeList,
                   result, drv, evl, trn>>

\* The popped state is a goal state: the search returns it.
SearchGoal(r) ==
    /\ spc[r] = "search"
    /\ Len(closeList[r]) < MaxExpansions
    /\ \E k \in PopCandidates(openList[r], closeList[r]) :
        /\ IsGoal(openList[r][k].st, target)
        /\ result' = [result EXCEPT ![r] = <<openList[r][k].st>>]
        /\ openList' = [openList EXCEPT ![r] = RemoveAt(openList[r], k)]
    /\ spc' = [spc EXCEPT ![r] = "success"]
    /\ UNCHANGED <<rseed, target, candModel, weights, closeList, drv, evl, trn>>

\* One expansion: the popped state's children go onto the open list, the
\* state itself onto the close list.
SearchExpand(r) ==
    /\ spc[r] = "search"
    /\ Len(closeList[r]) < MaxExpansions
    /\ \E k \in PopCandidates(openList[r], closeList[r]) :
        /\ ~IsGoal(openList[r][k].st, target)
        /\ openList' = [openList EXCEPT ![r] =
              RemoveAt(openList[r], k)
                \o NewEntries(openList[r][k].st, closeList[r], candModel, weights)]
        /\ closeList' = [closeList EXCEPT ![r] =
              Append(closeList[r], openList[r][k].st)]
    /\ UNCHANGED <<spc, rseed, target, candModel, weights, result, drv, evl, trn>>

SearchNext ==
    \E r \in Runs :
        SearchStart(r) \/ SearchFail(r) \/ SearchGoal(r) \/ SearchExpand(r)

InitSearch == DrvIdle /\ EvalIdle /\ TrainIdle /\ SearchInit

SpecSearch == InitSearch /\ [][SearchNext]_vars

Init == DrvInit /\ EvalIdle /\ TrainIdle /\ SearchIdle

Next == DrvNext

Spec == Init /\ [][Next]_vars

\* The process runs until it exits: every step that can be taken is taken.
FairSpec == Spec /\ WF_vars(Next)

\* ----------------------------------------------------------------- claims
InASearch == handler = "asearch_gen"
InSample == handler = "sample_gen"
FailedBefore(d) == Cardinality({f \in failed : f < d})

C2_EveryLaterActGenerated ==
    (InASearch /\ pc \in {"asearch_evaluate", "asearch_write", "log_done", "done"})
        => /\ \A f \in failed : \A j \in (f + 1)..numDas : j \in called
           /\ \A i \in 1..Len(genDoc) : genDoc[i].da \notin failed

ASearchRunning ==
    pc \in {"asearch_generate", "asearch_evaluate", "asearch_write",
            "log_done", "done"}

\* C2 (amended): a failed search does not abort the run: generate_tree is
\* still invoked for every later DialogueAct the generation loop covers (all
\* of them without an evaluation file, the first min(#acts, #gold trees) with
\* one), the failed DialogueAct has no tree in the document, and the run
\* reaches the writing step.
C2_FailureDoesNotAbort ==
    /\ [](InASearch /\ failed # {} => ASearchRunning)
    /\ []((InASearch /\ pc \in {"asearch_evaluate", "asearch_write",
                                "log_done", "done"})
            => /\ \A f \in failed :
                    \A j \in (f + 1)..ASearchLoopLen(eval_file, numDas, goldTrees) :
                        j \in called
               /\ \A i \in 1..Len(genDoc) : genDoc[i].da \notin failed)
    /\ ((InASearch /\ failed # {}
            /\ pc \in {"asearch_generate", "asearch_evaluate"})
          ~> (pc = "asearch_write"))

\* C2 (witness): the search for d_1 failed, generate_tree was called for d_2
\* all the same, and the run is at the writing step with d_2's tree alone.
C2_Witness ==
    /\ InASearch /\ pc = "asearch_write"
    /\ failed = {1} /\ called = {1, 2} /\ Len(genDoc) = 1

\* C10 (as stated): every gold tree is compared only with trees generated
\* from the DialogueAct of the same index.
C10_GoldPairedWithOwnAct == \A pr \in pairs : pr[1] = pr[2]

\* C6 (as stated): each documented action name given with at least one more
\* argument runs its handler, and only an undocumented name ends in the
\* 'Unknown Tgen action' exit.
C6_DocumentedActionsDispatch ==
    (action \in Documented /\ 2 * Len(optv) + nfiles > 0
        /\ pc \notin {"start", "main"})
        => handler = action /\ pc # "exit_unknown"

\* C7 (as stated): asearch_gen given -s <selector> among the options of its
\* usage does not fail on option parsing and reads the evaluation trees with
\* that selector; without -s the selector is the empty string.
UsageASearchOptions == {"-e", "-s", "-d", "-w", "-c"}
C7_SelectorOptionAccepted ==
    (InASearch /\ pc # "asearch_gen" /\ GetoptOk(optv, UsageASearchOptions))
        => /\ pc # "exit_getopt"
           /\ eval_selector = OptValue(optv, "-s", "")

\* F1 of one generated tree against one gold tree.
TreeF1(gold_tree, gen_tree) ==
    f1_from_counts(corr_pred_gold(gold_tree, gen_tree)[1],
                   corr_pred_gold(gold_tree, gen_tree)[2],
                   corr_pred_gold(gold_tree, gen_tree)[3])

\* Positions of the trees of d_i in sample_gen's document.
SamplesOf(i) == ((i - 1) * num_to_generate + 1)..(i * num_to_generate)

\* The oracle evaluation of the first n DialogueActs: one sample of each is
\* selected, of maximal F1 against that act's gold tree; the counts of the
\* selected samples are summed; P/R/F1 come from the sums.
OracleEvaluates(n) ==
    /\ Len(selected) = n
    /\ \A i \in 1..n :
        /\ selected[i] \in SamplesOf(i)
        /\ genDoc[selected[i]].da = i
        /\ \A j \in SamplesOf(i) :
              ~FracLess(TreeF1(goldTrees[i], genDoc[selected[i]]),
                        TreeF1(goldTrees[i], genDoc[j]))
    /\ \A k \in 1..3 :
          counts[k] = SumSeq([i \in 1..n |->
                         corr_pred_gold(goldTrees[i], genDoc[selected[i]])[k]])
    /\ IF counts[1] = 0
       THEN \A k \in 1..3 : FracIsZero(score[k])
       ELSE /\ FracEq(score[1], Frac(counts[1], counts[2]))
            /\ FracEq(score[2], Frac(counts[1], counts[3]))
            /\ FracEq(score[3], Frac(2 * counts[1], counts[2] + counts[3]))

OracleEvaluated == InSample /\ score # <<>>

MacroF1TimesN ==
    LET f == [i \in 1..Len(selected) |->
                 TreeF1(goldTrees[i], genDoc[selected[i]])]
    IN  IF Len(f) = 2 THEN FracAdd(f[1], f[2]) ELSE FracZero

C5_F1ZeroIffNoCorrectAndSomeCount ==
    epc = "done" =>
        /\ \A k \in 1..3 : FracInUnit(prf[k])
        /\ predicted = 0 => FracIsZero(prf[1])
        /\ gold = 0 => FracIsZero(prf[2])
        /\ FracIsZero(prf[3]) <=> (correct = 0 /\ (predicted > 0 \/ gold > 0))

\* C5 (amended): precision, recall and F1 are in [0, 1], 0 when the
\* denominator is 0, and F1 = 0 exactly when correct = 0; that includes
\* correct = predicted = gold = 0, where every denominator is 0.
C5_F1Bounds ==
    epc = "done" =>
        /\ \A k \in 1..3 : FracInUnit(prf[k])
        /\ predicted = 0 => FracIsZero(prf[1])
        /\ gold = 0 => FracIsZero(prf[2])
        /\ FracIsZero(prf[3]) <=> (correct = 0)
        /\ correct > 0 => /\ FracEq(prf[1], Frac(correct, predicted))
                          /\ FracEq(prf[2], Frac(correct, gold))
                          /\ FracEq(prf[3], Frac(2 * correct, predicted + gold))

\* C5 (witness): the call with correct = predicted = gold = 0 returned F1 = 0.
C5_Witness ==
    /\ epc = "done" /\ correct = 0 /\ predicted = 0 /\ gold = 0
    /\ FracIsZero(prf[3])

SearchEnded(r) == spc[r] \in {"success", "failure"}
NoDuplicates(q) == \A i, j \in 1..Len(q) : q[i] = q[j] => i = j

====
